---- MODULE Spec2Model ----
(***************************************************************************)
(* Model of WheatPhenologyAnalyzer (src/wheat_phenology_tool.py).          *)
(*                                                                         *)
(* Real numbers are fixed-point integers in units of 1/S (S = 10000), so   *)
(* 0.15 is 1500 and 1.0 is 10000.  The IEEE value NaN, which the code can  *)
(* produce by 0/0, is the distinguished value NaN; every arithmetic helper *)
(* propagates it the way numpy does.  Dates are integer day numbers; an    *)
(* observation is [day |-> offset from sowing, ndvi |-> value].            *)
(***************************************************************************)
EXTENDS Integers, Sequences, FiniteSets, TLC

VARIABLES ndvi_data, sowing_date, harvest_date, fvc_params, daily_ndvi, outcome

vars == <<ndvi_data, sowing_date, harvest_date, fvc_params, daily_ndvi, outcome>>

----------------------------------------------------------------------------
(* Numbers *)

S == 10000

NaN == -2000000000

None == -1999999999

IsNaN(v) == v = NaN

Max2(a, b) == IF a >= b THEN a ELSE b

Min2(a, b) == IF a <= b THEN a ELSE b

Abs(a) == IF a < 0 THEN 0 - a ELSE a

\* floor division for either sign of the numerator, positive denominator
FloorDiv(a, b) == IF a >= 0 THEN a \div b ELSE 0 - ((0 - a + b - 1) \div b)

\* a * b / S without leaving 32 bits, for 0 <= b <= 20 * S
MulS(a, b) == IF a >= 0
              THEN (a \div S) * b + ((a % S) * b) \div S
              ELSE 0 - ((Abs(a) \div S) * b + ((Abs(a) % S) * b) \div S)

\* Python's builtin max(a, b) / min(a, b): the first argument wins unless
\* the second compares greater / smaller, and every comparison with NaN is False
PyMax(a, b) == IF IsNaN(a) \/ IsNaN(b) THEN a ELSE Max2(a, b)

PyMin(a, b) == IF IsNaN(a) \/ IsNaN(b) THEN a ELSE Min2(a, b)

\* np.clip(v, 0, 1): NaN stays NaN
Clip(v) == IF IsNaN(v) THEN NaN ELSE Max2(0, Min2(S, v))

ClipAll(y) == [d \in DOMAIN y |-> Clip(y[d])]

\* (1 - w) * a + w * b with the weight w in units of 1/S
Blend(w, a, b) == IF IsNaN(a) \/ IsNaN(b) THEN NaN
                  ELSE MulS(a, S - w) + MulS(b, w)

----------------------------------------------------------------------------
(* exp(-p/q) for p >= 0, q > 0, in units of 1/S *)

ExpM1 == 3679

RECURSIVE PowExpM1(_)
PowExpM1(a) == IF a = 0 THEN S
               ELSE IF a > 25 THEN 0
               ELSE (PowExpM1(a - 1) * ExpM1) \div S

RECURSIVE TaylorNeg(_, _, _, _)
\* sum_{j >= k} (-r/q)^j / j!  given term = (r/q)^k / k! ; 0 <= r < q, so the
\* terms shrink to 0 and the sum is finite
TaylorNeg(r, q, k, term) ==
    IF term = 0 THEN 0
    ELSE (IF k % 2 = 0 THEN term ELSE 0 - term)
         + TaylorNeg(r, q, k + 1, (term * r) \div (q * (k + 1)))

ExpNeg(p, q) == (PowExpM1(p \div q) * TaylorNeg(p % q, q, 0, S)) \div S

\* 1 / (1 + exp(-z)) for z = zn / zd, zd > 0
Sigmoid(zn, zd) ==
    IF zn >= 0 THEN (S * S) \div (S + ExpNeg(zn, zd))
    ELSE (S * ExpNeg(0 - zn, zd)) \div (S + ExpNeg(0 - zn, zd))

----------------------------------------------------------------------------
(* Observations (load_data keeps them sorted by phenomenonTime) *)

\* x_obs = (phenomenonTime - sowing_date).dt.days
x_obs(obs, sow) == [i \in 1..Len(obs) |-> obs[i].phenomenonTime - sow]

y_obs(obs) == [i \in 1..Len(obs) |-> obs[i].NDVI]

RECURSIVE SeqMin(_)
\* Series.min(): NaN for an empty series
SeqMin(v) == IF Len(v) = 0 THEN NaN
             ELSE IF Len(v) = 1 THEN v[1]
             ELSE Min2(v[1], SeqMin(Tail(v)))

RECURSIVE SeqMax(_)
\* Series.max(): NaN for an empty series
SeqMax(v) == IF Len(v) = 0 THEN NaN
             ELSE IF Len(v) = 1 THEN v[1]
             ELSE Max2(v[1], SeqMax(Tail(v)))

RECURSIVE SeqSum(_)
SeqSum(v) == IF Len(v) = 0 THEN 0 ELSE v[1] + SeqSum(Tail(v))

RECURSIVE Insert(_, _)
Insert(v, a) == IF Len(v) = 0 THEN <<a>>
                ELSE IF a <= v[1] THEN <<a>> \o v
                ELSE <<v[1]>> \o Insert(Tail(v), a)

RECURSIVE SortAsc(_)
SortAsc(v) == IF Len(v) = 0 THEN <<>> ELSE Insert(SortAsc(Tail(v)), v[1])

\* linear-interpolation quantile (pandas Series.quantile and np.percentile
\* defaults): between the order statistics at position (n - 1) * q, with q
\* given in thousandths
Quantile(v, permille) ==
    LET sorted == SortAsc(v)
        n      == Len(v)
        num    == (n - 1) * permille
        lo     == num \div 1000
        frac   == num % 1000
    IN  IF frac = 0 THEN sorted[lo + 1]
        ELSE sorted[lo + 1] + MulS(sorted[lo + 2] - sorted[lo + 1], frac * 10)

----------------------------------------------------------------------------
(* estimate_fvc_parameters *)

NoParams == [ndvi_soil |-> None, ndvi_vegetation |-> None]

LiteratureSoil == 1500

LiteratureVegetation == 8500

SoilFloor == 500

VegetationCeiling == 9500

Buffer == 200

EarlySeasonDays == 30

PeakSeasonFrom == 60

PeakSeasonTo == 120

FvcMethods == {"literature", "data_driven", "seasonal"}

literature_params ==
    [ndvi_soil |-> LiteratureSoil, ndvi_vegetation |-> LiteratureVegetation]

\* the extremes stored as observed, without the 0.02 buffer
data_driven_params_unbuffered(obs) ==
    LET ndvi_min == SeqMin(y_obs(obs))
        ndvi_max == SeqMax(y_obs(obs))
    IN  [ndvi_soil |-> PyMax(SoilFloor, ndvi_min),
         ndvi_vegetation |-> PyMin(VegetationCeiling, ndvi_max)]

\* nan - 0.02 is nan, and max(0.05, nan) is 0.05
data_driven_params(obs) ==
    LET ndvi_min == SeqMin(y_obs(obs))
        ndvi_max == SeqMax(y_obs(obs))
    IN  [ndvi_soil |-> PyMax(SoilFloor,
                             IF IsNaN(ndvi_min) THEN NaN ELSE ndvi_min - Buffer),
         ndvi_vegetation |-> PyMin(VegetationCeiling,
                             IF IsNaN(ndvi_max) THEN NaN ELSE ndvi_max + Buffer)]

seasonal_params(obs, sow) ==
    LET early == SelectSeq(obs, LAMBDA o : o.phenomenonTime - sow <= EarlySeasonDays)
        mid   == SelectSeq(obs, LAMBDA o : /\ o.phenomenonTime - sow >= PeakSeasonFrom
                                           /\ o.phenomenonTime - sow <= PeakSeasonTo)
        soil  == IF Len(early) > 0 THEN Quantile(y_obs(early), 250) ELSE LiteratureSoil
        veg   == IF Len(mid) > 0 THEN Quantile(y_obs(mid), 750) ELSE LiteratureVegetation
    IN  [ndvi_soil |-> PyMax(SoilFloor, soil),
         ndvi_vegetation |-> PyMin(VegetationCeiling, veg)]

\* the parameters the method stores; only called for a recognised method
estimated_params(method, obs, sow) ==
    IF method = "literature" THEN literature_params
    ELSE IF method = "data_driven" THEN data_driven_params(obs)
    ELSE seasonal_params(obs, sow)

----------------------------------------------------------------------------
(* calculate_fvc, calculate_ground_cover_percentage *)

\* the quotient without np.clip
fvc_value_unclipped(v, params) ==
    LET den == params.ndvi_vegetation - params.ndvi_soil
        num == v - params.ndvi_soil
    IN  IF IsNaN(v) THEN NaN
        ELSE IF den = 0
             THEN (IF num = 0 THEN NaN ELSE IF num > 0 THEN S ELSE 0)
        ELSE IF den > 0 THEN FloorDiv(num * S, den)
        ELSE FloorDiv((0 - num) * S, 0 - den)

\* the quotient of the distance |v - soil|
fvc_value_folded(v, params) ==
    LET den == params.ndvi_vegetation - params.ndvi_soil
        num == Abs(v - params.ndvi_soil)
    IN  IF IsNaN(v) THEN NaN
        ELSE IF den = 0
             THEN (IF num = 0 THEN NaN ELSE IF num > 0 THEN S ELSE 0)
        ELSE IF den > 0 THEN Clip(FloorDiv(num * S, den))
        ELSE Clip(FloorDiv((0 - num) * S, 0 - den))

\* one element of (ndvi_values - soil) / (vegetation - soil) followed by
\* np.clip(., 0, 1); x/0 is +inf, -inf or (0/0) NaN, and clip maps the
\* infinities to 1 and 0 and keeps NaN
fvc_value(v, params) ==
    LET den == params.ndvi_vegetation - params.ndvi_soil
        num == v - params.ndvi_soil
    IN  IF IsNaN(v) THEN NaN
        ELSE IF den = 0
             THEN (IF num = 0 THEN NaN ELSE IF num > 0 THEN S ELSE 0)
        ELSE IF den > 0 THEN Clip(FloorDiv(num * S, den))
        ELSE Clip(FloorDiv((0 - num) * S, 0 - den))

params_missing(params) ==
    params.ndvi_soil = None \/ params.ndvi_vegetation = None

calculate_fvc(ndvi_values, params) ==
    [d \in DOMAIN ndvi_values |-> fvc_value(ndvi_values[d], params)]

calculate_ground_cover_percentage(fvc_values) ==
    [d \in DOMAIN fvc_values |->
        IF IsNaN(fvc_values[d]) THEN NaN ELSE fvc_values[d] * 100]

----------------------------------------------------------------------------
(* Reconstruction: the daily grid and the curve families *)

\* x_interp = (date_range - sowing_date).days, one entry per calendar day
x_interp(sow, harv) == 0..(harv - sow)

SeasonLength(sow, harv) == harv - sow

\* for obs_day, obs_ndvi in zip(x_obs, y_obs): if obs_day in x_interp:
\*     y[idx] = w * obs_ndvi + (1 - w) * y[idx]             (w in units of 1/S)
RECURSIVE BlendObserved(_, _, _, _, _)
BlendObserved(y, obs, sow, w, i) ==
    IF i > Len(obs) THEN y
    ELSE LET day == obs[i].phenomenonTime - sow
         IN  IF day \in DOMAIN y
             THEN BlendObserved([y EXCEPT ![day] = Blend(w, y[day], obs[i].NDVI)],
                                obs, sow, w, i + 1)
             ELSE BlendObserved(y, obs, sow, w, i + 1)

Baseline == 500

SigmoidPeakDay == 240

GrowthRateInv == 50

SigmoidObsWeight == 8000

\* _sigmoid_interpolation: peak / (1 + exp(-k (x - 240))), rescaled to start
\* from the baseline by the factor (peak - baseline) / peak, which is 0/0 when
\* the observed peak is 0, and NaN when there is no observation
sigmoid_interpolation(days, obs, sow) ==
    LET peak_ndvi == SeqMax(y_obs(obs))
        curve == [d \in days |->
                    IF IsNaN(peak_ndvi) \/ peak_ndvi = 0 THEN NaN
                    ELSE Baseline + MulS(peak_ndvi - Baseline,
                                         Sigmoid(d - SigmoidPeakDay, GrowthRateInv))]
    IN  BlendObserved(curve, obs, sow, SigmoidObsWeight, 1)

emergence_day == 10

tillering_start == 45

stem_elongation_start == 120

booting_start == 200

heading_start == 220

flowering_start == 230

grain_filling_start == 245

maturity_start == 270

\* start + slope * (days - from) / (to - from); the division is 0/0 = NaN when
\* the phase has no length and the day is its first
PhaseTarget(start, slope, days, from, to) ==
    IF to = from THEN NaN
    ELSE start + FloorDiv(slope * (days - from), to - from)

\* the target and the weight of the phase a day of the balanced curve lies in
BalancedTarget(days, last) ==
    IF days < tillering_start
    THEN PhaseTarget(500, 2500, days, emergence_day, tillering_start)
    ELSE IF days < stem_elongation_start
    THEN PhaseTarget(3000, 3500, days, tillering_start, stem_elongation_start)
    ELSE IF days < booting_start
    THEN PhaseTarget(6500, 2000, days, stem_elongation_start, booting_start)
    ELSE IF days < flowering_start
    THEN PhaseTarget(8500, 1000, days, booting_start, flowering_start)
    ELSE IF days < grain_filling_start
    THEN 9500
    ELSE IF days < maturity_start
    THEN PhaseTarget(9500, 0 - 3000, days, grain_filling_start, maturity_start)
    ELSE PhaseTarget(6500, 0 - 5000, days, maturity_start, last)

BalancedWeight(days) ==
    IF days < tillering_start THEN 4000
    ELSE IF days < stem_elongation_start THEN 5000
    ELSE IF days < booting_start THEN 6000
    ELSE IF days < flowering_start THEN 7000
    ELSE IF days < grain_filling_start THEN 8000
    ELSE IF days < maturity_start THEN 6000
    ELSE 7000

\* the loop over x_interp that applies the phase constraints to the baseline
BalancedConstrain(y, last) ==
    [d \in DOMAIN y |->
        IF d < emergence_day
        THEN Blend(S - ExpNeg(emergence_day - d, 5), y[d], Baseline)
        ELSE Blend(BalancedWeight(d), y[d], BalancedTarget(d, last))]

InfluenceRange == 50

InfluenceDecay == 15

ObservedWeight == 9000

Influence == [dist \in 0..(InfluenceRange - 1) |-> ExpNeg(dist, InfluenceDecay) \div 2]

\* the pull with the neighbourhood loop running over the observed day too
PullOne_all_days(y, day, obs_ndvi) ==
    IF day \notin DOMAIN y THEN y
    ELSE LET pulled == [y EXCEPT ![day] = Blend(ObservedWeight, @, obs_ndvi)]
         IN  [i \in DOMAIN y |->
                 IF Abs(i - day) < InfluenceRange
                 THEN Blend(Influence[Abs(i - day)], pulled[i], obs_ndvi)
                 ELSE pulled[i]]

\* one iteration of the loop over the observations: the pull at the observed
\* day and the decaying pull on every other day closer than 50 days
PullOne(y, day, obs_ndvi) ==
    IF day \notin DOMAIN y THEN y
    ELSE [i \in DOMAIN y |->
            IF i = day THEN Blend(ObservedWeight, y[i], obs_ndvi)
            ELSE IF Abs(i - day) < InfluenceRange
                 THEN Blend(Influence[Abs(i - day)], y[i], obs_ndvi)
                 ELSE y[i]]

RECURSIVE PullObserved(_, _, _, _)
PullObserved(y, obs, sow, i) ==
    IF i > Len(obs) THEN y
    ELSE PullObserved(PullOne(y, obs[i].phenomenonTime - sow, obs[i].NDVI),
                      obs, sow, i + 1)

\* gaussian_filter1d(y, sigma=1.5): radius int(4 * 1.5 + 0.5) = 6, weights
\* exp(-k^2 / 4.5) normalised to sum 1, borders extended by reflection
GaussRadius == 6

GaussKernel == <<2660, 2130, 1093, 360, 76, 10, 1>>

\* scipy's mode='reflect' (d c b a | a b c d | d c b a) for a grid 0..last
Reflect(i, last) ==
    LET n == last + 1
        m == ((i % (2 * n)) + 2 * n) % (2 * n)
    IN  IF m < n THEN m ELSE 2 * n - 1 - m

RECURSIVE GaussSum(_, _, _, _)
GaussSum(y, d, last, k) ==
    IF k > GaussRadius THEN 0
    ELSE LET v == y[Reflect(d + k, last)]
             u == y[Reflect(d - k, last)]
             rest == GaussSum(y, d, last, k + 1)
         IN  IF IsNaN(v) \/ IsNaN(u) \/ IsNaN(rest) THEN NaN
             ELSE IF k = 0 THEN GaussKernel[1] * v + rest
             ELSE GaussKernel[k + 1] * (v + u) + rest

gaussian_filter1d(y, last) ==
    [d \in DOMAIN y |->
        LET total == GaussSum(y, d, last, 0)
        IN  IF IsNaN(total) THEN NaN ELSE FloorDiv(total, S)]

\* lines 262-329: the logistic baseline around the mean observed day, with
\* the phase constraints applied
balanced_constrained(days, obs, sow, last) ==
    LET n == Len(obs)
        peak_ndvi == SeqMax(y_obs(obs))
        day_sum == SeqSum(x_obs(obs, sow))
        sigmoid_baseline ==
            [d \in days |-> Baseline + MulS(peak_ndvi - Baseline,
                                Sigmoid(n * d - day_sum, GrowthRateInv * n))]
    IN  BalancedConstrain(sigmoid_baseline, last)

\* _balanced_interpolation for a non-empty observation set (np.max raises on
\* an empty one): logistic baseline around the mean observed day, phase
\* constraints, pulls toward the observations, smoothing
balanced_interpolation(days, obs, sow, last) ==
    gaussian_filter1d(
        PullObserved(balanced_constrained(days, obs, sow, last), obs, sow, 1),
        last)

\* _physiological_interpolation; jitter[d] stands for 0.02 * np.random.random()
physiological_curve(d, last, jitter) ==
    IF d < emergence_day THEN 500 + jitter[d]
    ELSE IF d < tillering_start
    THEN PhaseTarget(500, 1500, d, emergence_day, tillering_start)
    ELSE IF d < stem_elongation_start
    THEN PhaseTarget(2000, 2500, d, tillering_start, stem_elongation_start)
    ELSE IF d < booting_start
    THEN PhaseTarget(4500, 2500, d, stem_elongation_start, booting_start)
    ELSE IF d < heading_start
    THEN PhaseTarget(7000, 1500, d, booting_start, heading_start)
    ELSE IF d < flowering_start
    THEN PhaseTarget(8500, 500, d, heading_start, flowering_start)
    ELSE IF d < grain_filling_start THEN 9000 + jitter[d]
    ELSE IF d < maturity_start
    THEN PhaseTarget(9000, 0 - 3000, d, grain_filling_start, maturity_start)
    ELSE PhaseTarget(6000, 0 - 5000, d, maturity_start, last)

PhysiologicalObsWeight == 7000

physiological_interpolation(days, obs, sow, last, jitter) ==
    BlendObserved([d \in days |-> physiological_curve(d, last, jitter)],
                  obs, sow, PhysiologicalObsWeight, 1)

----------------------------------------------------------------------------
(* Numeric fits.  A node is [x |-> day offset, y |-> value]; node sequences  *)
(* are sorted by x and have distinct x (observations fall on distinct days). *)

Nodes(obs, sow) ==
    [i \in 1..Len(obs) |-> [x |-> obs[i].phenomenonTime - sow, y |-> obs[i].NDVI]]

\* a / b for b # 0 of either sign, rounded down
DivSigned(a, b) == IF b > 0 THEN FloorDiv(a, b) ELSE FloorDiv(0 - a, 0 - b)

\* interp1d(kind='linear', fill_value='extrapolate') on at least 2 nodes: the
\* segment is chosen by searchsorted clipped to [1, n - 1], so the first and
\* the last segment extrapolate
linear_interp(nodes, d) ==
    LET n     == Len(nodes)
        below == Cardinality({i \in 1..n : nodes[i].x < d})
        hi    == Max2(1, Min2(n - 1, below)) + 1
        lo    == hi - 1
    IN  nodes[lo].y + DivSigned((nodes[hi].y - nodes[lo].y) * (d - nodes[lo].x),
                                nodes[hi].x - nodes[lo].x)

RECURSIVE LagrangeTerm(_, _, _, _, _)
\* v * prod_{j >= k, j # i} (d - x_j) / (x_i - x_j)
LagrangeTerm(nodes, i, d, k, v) ==
    IF k > Len(nodes) THEN v
    ELSE IF k = i THEN LagrangeTerm(nodes, i, d, k + 1, v)
    ELSE LagrangeTerm(nodes, i, d, k + 1,
                      DivSigned(v * (d - nodes[k].x), nodes[i].x - nodes[k].x))

RECURSIVE LagrangeSum(_, _, _)
LagrangeSum(nodes, d, i) ==
    IF i > Len(nodes) THEN 0
    ELSE LagrangeTerm(nodes, i, d, 1, nodes[i].y) + LagrangeSum(nodes, d, i + 1)

\* the polynomial of degree Len(nodes) - 1 through all the nodes.  It is what
\* np.polyfit(x, y, n - 1) returns for n nodes, and what interp1d(kind='cubic')
\* (a not-a-knot spline) returns for exactly 4 nodes.
polynomial_through(nodes, d) == LagrangeSum(nodes, d, 1)

\* P_i / P_j with P_i = prod_{k # i} (x_i - x_k), for 4 nodes, in units of 1/S
NodeRatio(nodes, i, j) ==
    IF i = j THEN S
    ELSE LET others == (1..4) \ {i, j}
             k == CHOOSE a \in others : \A b \in others : a <= b
             l == CHOOSE a \in others : \A b \in others : a >= b
         IN  0 - DivSigned(((nodes[i].x - nodes[k].x) * (nodes[i].x - nodes[l].x)) * S,
                           (nodes[j].x - nodes[k].x) * (nodes[j].x - nodes[l].x))

\* np.polyfit(x, y, 2) on 4 nodes: the least-squares parabola.  Its residual
\* vector is the projection of y on w, w_i = 1 / P_i, the one direction
\* orthogonal to the parabolas on the nodes:
\*     fitted_i = y_i - (sum_j R_ij y_j) / (sum_j R_ij^2),  R_ij = P_i / P_j
quadratic_fitted(nodes, i) ==
    LET num == SeqSum([j \in 1..4 |-> MulS(NodeRatio(nodes, i, j), nodes[j].y)])
        den == SeqSum([j \in 1..4 |->
                  MulS(Abs(NodeRatio(nodes, i, j)), Abs(NodeRatio(nodes, i, j)))])
        k   == den \div 50000 + 1
    IN  nodes[i].y - DivSigned(DivSigned(num, k) * S, den \div k)

quadratic_lstsq(nodes, d) ==
    polynomial_through(
        [i \in 1..3 |-> [x |-> nodes[i].x, y |-> quadratic_fitted(nodes, i)]], d)

----------------------------------------------------------------------------
(* _calculate_confidence_intervals *)

\* a cubic refit whatever the number of unique points
boot_kind_cubic_always(method, m) ==
    IF method = "cubic" THEN "cubic"
    ELSE IF method = "polynomial" /\ m >= 3 THEN "polynomial"
    ELSE "linear"

\* the fit line 482-490 picks for a deduplicated resample of m points
boot_kind(method, m) ==
    IF method = "cubic" /\ m >= 4 THEN "cubic"
    ELSE IF method = "polynomial" /\ m >= 3 THEN "polynomial"
    ELSE "linear"

\* f_boot(x_interp) for one resample with at least 2 unique points
boot_prediction(method, nodes, days) ==
    LET kind == boot_kind(method, Len(nodes))
    IN  [d \in days |->
            IF kind = "cubic" THEN polynomial_through(nodes, d)
            ELSE IF kind = "polynomial"
                 THEN (IF Len(nodes) = 3 THEN polynomial_through(nodes, d)
                       ELSE quadratic_lstsq(nodes, d))
            ELSE linear_interp(nodes, d)]

\* np.unique(x_boot, return_index=True): the resampled points, sorted by day
\* and without repetition.  The observations lie on distinct days, so the
\* result is fixed by the set of indices the resample drew.
boot_unique(nodes, drawn) == SelectSeq(nodes, LAMBDA p : \E i \in drawn : nodes[i] = p)

\* what np.random.choice(n, n, replace=True) can draw, as a set of indices
Resamples(n) == IF n = 0 THEN {{}} ELSE (SUBSET (1..n)) \ {{}}

RECURSIVE bootstrap_predictions(_, _, _, _, _)
\* the loop over the trials: a trial with fewer than 2 unique points is skipped
bootstrap_predictions(method, nodes, days, trials, t) ==
    IF t > Len(trials) THEN <<>>
    ELSE LET unique == boot_unique(nodes, trials[t])
             rest   == bootstrap_predictions(method, nodes, days, trials, t + 1)
         IN  IF Len(unique) < 2 THEN rest
             ELSE <<boot_prediction(method, unique, days)>> \o rest

LowerPermille == 25

UpperPermille == 975

percentile(predictions, days, permille) ==
    [d \in days |->
        Quantile([k \in 1..Len(predictions) |-> predictions[k][d]], permille)]

----------------------------------------------------------------------------
(* The session *)

StageNames == <<"Sowing", "Emergence", "Tillering", "Stem Elongation", "Booting",
                "Heading", "Flowering", "Grain Filling", "Maturity", "Harvest">>

NoSeries == [columns |-> {}, Date |-> <<>>, Days_After_Sowing |-> <<>>,
             NDVI_Interpolated |-> <<>>, NDVI_Lower_CI |-> <<>>,
             NDVI_Upper_CI |-> <<>>, FVC_Interpolated |-> <<>>,
             FVC_Lower_CI |-> <<>>, FVC_Upper_CI |-> <<>>,
             Ground_Cover_Percentage |-> <<>>, Ground_Cover_Lower_CI |-> <<>>,
             Ground_Cover_Upper_CI |-> <<>>, Growth_Stage |-> <<>>]

BaseColumns == {"Date", "Days_After_Sowing", "NDVI_Interpolated",
                "NDVI_Lower_CI", "NDVI_Upper_CI"}

CoverColumns == {"FVC_Interpolated", "FVC_Lower_CI", "FVC_Upper_CI",
                 "Ground_Cover_Percentage", "Ground_Cover_Lower_CI",
                 "Ground_Cover_Upper_CI"}

\* what the last call did: its name, its argument, and the value it returned
\* or the exception it raised
Returned(op, argument, value) ==
    [op |-> op, argument |-> argument, status |-> "ok", returned |-> value]

Raised(op, argument, error) ==
    [op |-> op, argument |-> argument, status |-> error, returned |-> "nothing"]

----------------------------------------------------------------------------------------------------------------------------------------------------------------------------------------------------------------------------
(* interpolate_ndvi, as a function of its inputs and of its random draws *)

InterpolationMethods ==
    {"balanced", "physiological", "sigmoid", "cubic", "polynomial", "linear"}

\* whether lines 175-197 raise.  np.max raises on an empty array; interp1d
\* raises when given too few points: fewer than 4 for kind='cubic', none for
\* kind='linear', and, depending on the scipy release, one point for
\* kind='linear' (strict); np.polyfit raises for the degree -1.  Every name
\* that is not matched earlier takes the final else branch, the linear fit.
fit_raises(method, n, strict) ==
    IF method = "balanced" THEN n = 0
    ELSE IF method \in {"physiological", "sigmoid"} THEN FALSE
    ELSE IF method = "cubic" THEN n < 4
    ELSE IF method = "polynomial" THEN n = 0
    ELSE n = 0 \/ (n = 1 /\ strict)

\* y_interp of lines 175-197, when they do not raise.  np.polyfit has the
\* degree min(3, n - 1), which is n - 1 for the at most 4 nodes of the model.
fit_curve(method, obs, sow, days, last, jitter) ==
    LET nodes == Nodes(obs, sow)
    IN  IF method = "balanced" THEN balanced_interpolation(days, obs, sow, last)
        ELSE IF method = "physiological"
        THEN physiological_interpolation(days, obs, sow, last, jitter)
        ELSE IF method = "sigmoid" THEN sigmoid_interpolation(days, obs, sow)
        ELSE IF method \in {"cubic", "polynomial"}
        THEN [d \in days |-> polynomial_through(nodes, d)]
        ELSE IF Len(nodes) = 1 THEN [d \in days |-> NaN]
        ELSE [d \in days |-> linear_interp(nodes, d)]

\* lines 199-200: the clipped curve
clipped_curve(method, obs, sow, harv, jitter) ==
    ClipAll(fit_curve(method, obs, sow, x_interp(sow, harv),
                      SeasonLength(sow, harv), jitter))

\* lines 205-209: the clipped percentile band of the bootstrap, or the fact
\* that no trial succeeded
confidence_band(method, obs, sow, harv, trials) ==
    LET days  == x_interp(sow, harv)
        preds == bootstrap_predictions(method, Nodes(obs, sow), days, trials, 1)
    IN  IF Len(preds) = 0
        THEN [succeeded |-> 0, lower |-> <<>>, upper |-> <<>>]
        ELSE [succeeded |-> Len(preds),
              lower |-> ClipAll(percentile(preds, days, LowerPermille)),
              upper |-> ClipAll(percentile(preds, days, UpperPermille))]

\* lines 220-227: the cover columns computed from one NDVI column
cover_columns(col, params) ==
    LET fvc == calculate_fvc(col, params)
    IN  [fvc |-> fvc, ground_cover |-> calculate_ground_cover_percentage(fvc)]

\* the DataFrame of lines 229-247; the cover columns are there when
\* self.fvc_params['ndvi_soil'] is not None (has_fvc)
daily_frame(dates, days, y, lower, upper, has_fvc, cover, cover_lo, cover_hi) ==
    [columns |-> IF has_fvc THEN BaseColumns \cup CoverColumns ELSE BaseColumns,
     Date |-> dates,
     Days_After_Sowing |-> days,
     NDVI_Interpolated |-> y,
     NDVI_Lower_CI |-> lower,
     NDVI_Upper_CI |-> upper,
     FVC_Interpolated |-> IF has_fvc THEN cover.fvc ELSE <<>>,
     FVC_Lower_CI |-> IF has_fvc THEN cover_lo.fvc ELSE <<>>,
     FVC_Upper_CI |-> IF has_fvc THEN cover_hi.fvc ELSE <<>>,
     Ground_Cover_Percentage |-> IF has_fvc THEN cover.ground_cover ELSE <<>>,
     Ground_Cover_Lower_CI |-> IF has_fvc THEN cover_lo.ground_cover ELSE <<>>,
     Ground_Cover_Upper_CI |-> IF has_fvc THEN cover_hi.ground_cover ELSE <<>>,
     Growth_Stage |-> <<>>]

----
(* estimate_growth_stages *)

RECURSIVE FirstMax(_, _, _)
\* the first row of lo..hi holding the largest value that is not NaN, or None
FirstMax(col, lo, hi) ==
    IF lo = hi THEN (IF IsNaN(col[lo]) THEN None ELSE lo)
    ELSE LET mid   == (lo + hi) \div 2
             left  == FirstMax(col, lo, mid)
             right == FirstMax(col, mid + 1, hi)
         IN  IF left = None THEN right
             ELSE IF right = None THEN left
             ELSE IF col[right] > col[left] THEN right ELSE left

\* Series.idxmax(): the first row holding the largest value, NaN rows skipped;
\* None when every row is NaN.  The rows are 0..last.
idxmax(col, last) == FirstMax(col, 0, last)

\* a schedule that takes booting from the sowing date, not from the peak
growth_stage_dates_fixed_booting(sow, harv, peak_date) ==
    [stage \in {StageNames[k] : k \in 1..Len(StageNames)} |->
        CASE stage = "Sowing" -> sow
          [] stage = "Emergence" -> sow + 10
          [] stage = "Tillering" -> sow + 45
          [] stage = "Stem Elongation" -> sow + 120
          [] stage = "Booting" -> sow + 200
          [] stage = "Heading" -> peak_date - 10
          [] stage = "Flowering" -> peak_date
          [] stage = "Grain Filling" -> peak_date + 15
          [] stage = "Maturity" -> harv - 25
          [] stage = "Harvest" -> harv]

\* the dict of lines 520-531, in insertion order StageNames
growth_stage_dates(sow, harv, peak_date) ==
    [stage \in {StageNames[k] : k \in 1..Len(StageNames)} |->
        CASE stage = "Sowing" -> sow
          [] stage = "Emergence" -> sow + 10
          [] stage = "Tillering" -> sow + 45
          [] stage = "Stem Elongation" -> sow + 120
          [] stage = "Booting" -> peak_date - 20
          [] stage = "Heading" -> peak_date - 10
          [] stage = "Flowering" -> peak_date
          [] stage = "Grain Filling" -> peak_date + 15
          [] stage = "Maturity" -> harv - 25
          [] stage = "Harvest" -> harv]

\* the anchor of the stage that follows in the dict, whatever its date
next_date_nominal(stage, dates) ==
    LET k == CHOOSE i \in 1..Len(StageNames) : StageNames[i] = stage
    IN  IF k = Len(StageNames) THEN None ELSE dates[StageNames[k + 1]]

\* lines 540-542: the earliest anchor strictly later than the stage's own, or
\* None when no anchor is later
next_date(stage, dates) ==
    LET later == {dates[s] : s \in {t \in DOMAIN dates : dates[t] > dates[stage]}}
    IN  IF later = {} THEN None
        ELSE CHOOSE m \in later : \A o \in later : m <= o

\* a mask that starts the day after the anchor
stage_mask_strict(stage, own, next, harv, date) ==
    IF stage # "Harvest"
    THEN /\ date > own
         /\ IF next # None THEN date < next ELSE date <= harv
    ELSE date = own

\* the boolean mask of lines 537-547 for one stage, at one Date
stage_mask(stage, own, next, harv, date) ==
    IF stage # "Harvest"
    THEN /\ date >= own
         /\ IF next # None THEN date < next ELSE date <= harv
    ELSE date = own

RECURSIVE assign_stages(_, _, _, _, _)
\* the loop over the dict: each stage overwrites the rows its mask selects
assign_stages(labels, col_date, dates, harv, k) ==
    IF k > Len(StageNames) THEN labels
    ELSE LET stage == StageNames[k]
             own   == dates[stage]
             next  == next_date(stage, dates)
         IN  assign_stages([i \in DOMAIN labels |->
                               IF stage_mask(stage, own, next, harv, col_date[i])
                               THEN stage ELSE labels[i]],
                           col_date, dates, harv, k + 1)

\* lines 512-551 on a series that exists: the returned dict and the
\* Growth_Stage column, or the fact that the peak lookup failed
growth_stages(sow, harv, col_date, col_ndvi) ==
    LET peak_idx == idxmax(col_ndvi, harv - sow)
    IN  IF peak_idx = None
        THEN [found |-> FALSE, dates |-> <<>>, labels |-> <<>>]
        ELSE LET dates == growth_stage_dates(sow, harv, col_date[peak_idx])
             IN  [found |-> TRUE, dates |-> dates,
                  labels |-> assign_stages([i \in DOMAIN col_date |-> "Unknown"],
                                           col_date, dates, harv, 1)]

----
(* Inputs *)

SowingDate == 276

\* candidate observations as (day after sowing, NDVI); a session loads a
\* subsequence of one pool, so observations lie on distinct days in date order
ObsPools ==
    { << <<5, 1000>>, <<121, 8500>>, <<250, 9000>> >>,
      << <<8, 5000>>, <<90, 5000>>, <<270, 2000>> >>,
      << <<3, 9800>>, <<100, 9900>> >> }

LongPool == << <<5, 1000>>, <<60, 4000>>, <<121, 8500>>, <<250, 9000>> >>

Observations(pool, picked) ==
    LET marked == [i \in 1..Len(pool) |->
                      [phenomenonTime |-> SowingDate + pool[i][1],
                       NDVI |-> pool[i][2], keep |-> i \in picked]]
        kept   == SelectSeq(marked, LAMBDA o : o.keep)
    IN  [i \in 1..Len(kept) |->
            [phenomenonTime |-> kept[i].phenomenonTime, NDVI |-> kept[i].NDVI]]

MaxShort == 2

\* every subsequence of at most MaxShort observations of a pool
ShortObsSeqs ==
    UNION { { Observations(pool, picked) :
                picked \in { q \in SUBSET (1..Len(pool)) : Cardinality(q) <= MaxShort } }
            : pool \in ObsPools }

FreeSeasons == {0, 301}

LongSeasons == {0, 130, 270, 301}

FullSeason == 301

NumTrials == 2

FvcMethodNames == FvcMethods \cup {"percentile"}

InterpolationMethodNames == InterpolationMethods \cup {"spline"}

JitterMax == 199

\* sample paths of 0.02 * np.random.random() per day
JitterPath(j, days) == [d \in days |-> IF j = 1 THEN 0 ELSE (d % 2) * JitterMax]

\* only the physiological curve draws jitter
JitterChoices(method) == IF method = "physiological" THEN {1, 2} ELSE {1}

\* the scipy releases differ only on a linear fit through a single point
Strictness(method, n) ==
    IF n = 1 /\ method \notin {"balanced", "physiological", "sigmoid", "cubic", "polynomial"}
    THEN BOOLEAN ELSE {TRUE}

RECURSIVE SubsetRank(_, _)
SubsetRank(drawn, n) ==
    IF n = 0 THEN 0
    ELSE 2 * SubsetRank(drawn, n - 1) + (IF n \in drawn THEN 1 ELSE 0)

\* the draws of the NumTrials trials.  np.percentile does not depend on the
\* order of the trials, so each multiset of draws is listed once, in
\* non-decreasing rank.
MultisetsOfDraws(n) ==
    { trials \in [1..NumTrials -> Resamples(n)] :
        \A t \in 1..(NumTrials - 1) :
            SubsetRank(trials[t], n) <= SubsetRank(trials[t + 1], n) }

\* a function is tabulated when it is compared, and built on every use otherwise
Tabulated(f) == IF f = f THEN f ELSE f

DrawsTable == Tabulated([n \in 0..Len(LongPool) |-> MultisetsOfDraws(n)])

TrialDraws(n) == DrawsTable[n]

\* np.random.choice(0, 0) raises ValueError on the numpy releases that reject
\* an empty population, and returns no draw on the others
EstimatorErrors(n) == IF n = 0 THEN {"ValueError", "NameError"} ELSE {"NameError"}

\* the bootstrap looks at the method only to choose between three fits
BootFamily(method) ==
    IF method \in {"cubic", "polynomial"} THEN method ELSE "linear"

\* the sessions of the free-running specification: a season of 0 days or of
\* main()'s 301, at most MaxShort observations
Sessions == ShortObsSeqs \X FreeSeasons

\* the sessions of the pipeline: seasons around the last phase boundary, and
\* the 4-observation series over the season of main()
PipelineSessions ==
    ((ShortObsSeqs \cup { Observations(pool, 1..Len(pool)) : pool \in ObsPools })
        \X LongSeasons)
    \cup { <<Observations(LongPool, 1..Len(LongPool)), FullSeason>> }

AllSessions == Sessions \cup PipelineSessions

\* The computations of interpolate_ndvi and estimate_growth_stages are
\* functions of the loaded session, the method, the parameters and the draws.
\* The model evaluates each of them once per input, in the tables below, and
\* the actions look the results up.

\* a date range that leaves the harvest date out
Calendar_exclusive ==
    [len \in {ss[2] : ss \in AllSessions} |->
        [Date |-> [i \in 0..(len - 1) |-> SowingDate + i],
         Days_After_Sowing |-> [i \in 0..(len - 1) |-> i]]]

\* lines 171-173: date_range and x_interp
Calendar ==
  Tabulated(
    [len \in {ss[2] : ss \in AllSessions} |->
        [Date |-> [i \in 0..len |-> SowingDate + i],
         Days_After_Sowing |-> [i \in 0..len |-> i]]])

Curves ==
  Tabulated(
    [ss \in AllSessions |->
        [method \in InterpolationMethodNames |->
            [j \in JitterChoices(method) |->
                IF fit_raises(method, Len(ss[1]), FALSE) \/ Len(ss[1]) <= 1
                THEN <<>>
                ELSE clipped_curve(method, ss[1], SowingDate, SowingDate + ss[2],
                                   JitterPath(j, 0..ss[2]))]]])

Bands ==
  Tabulated(
    [ss \in AllSessions |->
        [family \in {"cubic", "polynomial", "linear"} |->
            [trials \in TrialDraws(Len(ss[1])) |->
                confidence_band(family, ss[1], SowingDate, SowingDate + ss[2], trials)]]])

\* the parameters estimate_fvc_parameters can have stored in a session
SessionParams(ss) == { estimated_params(m, ss[1], SowingDate) : m \in FvcMethods }

CurveCovers ==
  Tabulated(
    [ss \in AllSessions |->
        [params \in SessionParams(ss) |->
            [method \in InterpolationMethodNames |->
                [j \in JitterChoices(method) |->
                    cover_columns(Curves[ss][method][j], params)]]]])

BandCovers ==
  Tabulated(
    [ss \in AllSessions |->
        [params \in SessionParams(ss) |->
            [family \in {"cubic", "polynomial", "linear"} |->
                [trials \in TrialDraws(Len(ss[1])) |->
                    [lower |-> cover_columns(Bands[ss][family][trials].lower, params),
                     upper |-> cover_columns(Bands[ss][family][trials].upper, params)]]]]])

Stages ==
  Tabulated(
    [ss \in AllSessions |->
        [y \in { Curves[ss][mj[1]][mj[2]] :
                    mj \in { mk \in InterpolationMethodNames \X {1, 2} :
                                mk[2] \in JitterChoices(mk[1]) } } \ {<<>>} |->
            growth_stages(SowingDate, SowingDate + ss[2], Calendar[ss[2]].Date, y)]])

----------------------------------------------------------------------------
(* State machine *)

Loaded(sessions) ==
    /\ \E ss \in sessions : /\ ndvi_data = ss[1]
                            /\ harvest_date = SowingDate + ss[2]
    /\ sowing_date = SowingDate
    /\ fvc_params = NoParams
    /\ daily_ndvi = NoSeries
    /\ outcome = Returned("__init__", "", "nothing")

Init == Loaded(Sessions)

\* estimate_fvc_parameters that clears the parameters before it looks at the name
EstimateFvcParameters_resets(method) ==
    /\ IF method \in FvcMethods
       THEN /\ fvc_params' = estimated_params(method, ndvi_data, sowing_date)
            /\ outcome' = Returned("estimate_fvc_parameters", method, fvc_params')
       ELSE /\ outcome' = Raised("estimate_fvc_parameters", method, "ValueError")
            /\ fvc_params' = NoParams
    /\ UNCHANGED <<ndvi_data, sowing_date, harvest_date, daily_ndvi>>

\* estimate_fvc_parameters that keeps a soil value the session already holds
EstimateFvcParameters_merges(method) ==
    /\ IF method \in FvcMethods
       THEN /\ fvc_params' =
                  IF fvc_params.ndvi_soil = None
                  THEN estimated_params(method, ndvi_data, sowing_date)
                  ELSE [estimated_params(method, ndvi_data, sowing_date)
                           EXCEPT !.ndvi_soil = fvc_params.ndvi_soil]
            /\ outcome' = Returned("estimate_fvc_parameters", method, fvc_params')
       ELSE /\ outcome' = Raised("estimate_fvc_parameters", method, "ValueError")
            /\ UNCHANGED fvc_params
    /\ UNCHANGED <<ndvi_data, sowing_date, harvest_date, daily_ndvi>>

\* estimate_fvc_parameters that drops a daily series computed under other parameters
EstimateFvcParameters_invalidates(method) ==
    /\ IF method \in FvcMethods
       THEN /\ fvc_params' = estimated_params(method, ndvi_data, sowing_date)
            /\ outcome' = Returned("estimate_fvc_parameters", method, fvc_params')
            /\ daily_ndvi' = IF fvc_params' = fvc_params THEN daily_ndvi ELSE NoSeries
       ELSE /\ outcome' = Raised("estimate_fvc_parameters", method, "ValueError")
            /\ UNCHANGED <<fvc_params, daily_ndvi>>
    /\ UNCHANGED <<ndvi_data, sowing_date, harvest_date>>

\* estimate_fvc_parameters(method)
EstimateFvcParameters(method) ==
    /\ IF method \in FvcMethods
       THEN /\ fvc_params' = estimated_params(method, ndvi_data, sowing_date)
            /\ outcome' = Returned("estimate_fvc_parameters", method, fvc_params')
       ELSE /\ outcome' = Raised("estimate_fvc_parameters", method, "ValueError")
            /\ UNCHANGED fvc_params
    /\ UNCHANGED <<ndvi_data, sowing_date, harvest_date, daily_ndvi>>

\* interpolate_ndvi that assigns the new columns into the frame it already has
InterpolateNdvi_keeps_labels(method) ==
    LET ss      == <<ndvi_data, harvest_date - sowing_date>>
        family  == BootFamily(method)
        has_fvc == fvc_params.ndvi_soil # None
    IN  /\ \E strict \in Strictness(method, Len(ndvi_data)) :
             IF fit_raises(method, Len(ndvi_data), strict)
             THEN /\ outcome' = Raised("interpolate_ndvi", method, "ValueError")
                  /\ UNCHANGED daily_ndvi
             ELSE \E j \in JitterChoices(method) :
                  \E trials \in TrialDraws(Len(ndvi_data)) :
                    LET band == Bands[ss][family][trials]
                    IN  IF band.succeeded = 0
                        THEN \* line 500 reads y_interp, not a name of that scope
                             /\ \E error \in EstimatorErrors(Len(ndvi_data)) :
                                   outcome' = Raised("interpolate_ndvi", method, error)
                             /\ UNCHANGED daily_ndvi
                        ELSE /\ daily_ndvi' =
                                  [daily_frame(
                                    Calendar[ss[2]].Date,
                                    Calendar[ss[2]].Days_After_Sowing,
                                    Curves[ss][method][j], band.lower, band.upper,
                                    has_fvc,
                                    IF has_fvc
                                    THEN CurveCovers[ss][fvc_params][method][j]
                                    ELSE <<>>,
                                    IF has_fvc
                                    THEN BandCovers[ss][fvc_params][family][trials].lower
                                    ELSE <<>>,
                                    IF has_fvc
                                    THEN BandCovers[ss][fvc_params][family][trials].upper
                                    ELSE <<>>)
                                   EXCEPT !.columns = @ \cup daily_ndvi.columns,
                                          !.Growth_Stage = daily_ndvi.Growth_Stage]
                             /\ outcome' = Returned("interpolate_ndvi", method, "daily_ndvi")
        /\ UNCHANGED <<ndvi_data, sowing_date, harvest_date, fvc_params>>

\* interpolate_ndvi(method)
InterpolateNdvi(method) ==
    LET ss      == <<ndvi_data, harvest_date - sowing_date>>
        family  == BootFamily(method)
        has_fvc == fvc_params.ndvi_soil # None
    IN  /\ \E strict \in Strictness(method, Len(ndvi_data)) :
             IF fit_raises(method, Len(ndvi_data), strict)
             THEN /\ outcome' = Raised("interpolate_ndvi", method, "ValueError")
                  /\ UNCHANGED daily_ndvi
             ELSE \E j \in JitterChoices(method) :
                  \E trials \in TrialDraws(Len(ndvi_data)) :
                    LET band == Bands[ss][family][trials]
                    IN  IF band.succeeded = 0
                        THEN \* line 500 reads y_interp, not a name of that scope
                             /\ \E error \in EstimatorErrors(Len(ndvi_data)) :
                                   outcome' = Raised("interpolate_ndvi", method, error)
                             /\ UNCHANGED daily_ndvi
                        ELSE /\ daily_ndvi' =
                                  daily_frame(
                                    Calendar[ss[2]].Date,
                                    Calendar[ss[2]].Days_After_Sowing,
                                    Curves[ss][method][j], band.lower, band.upper,
                                    has_fvc,
                                    IF has_fvc
                                    THEN CurveCovers[ss][fvc_params][method][j]
                                    ELSE <<>>,
                                    IF has_fvc
                                    THEN BandCovers[ss][fvc_params][family][trials].lower
                                    ELSE <<>>,
                                    IF has_fvc
                                    THEN BandCovers[ss][fvc_params][family][trials].upper
                                    ELSE <<>>)
                             /\ outcome' = Returned("interpolate_ndvi", method, "daily_ndvi")
        /\ UNCHANGED <<ndvi_data, sowing_date, harvest_date, fvc_params>>

\* estimate_growth_stages()
EstimateGrowthStages ==
    /\ IF daily_ndvi.columns = {}
       THEN \* self.daily_ndvi is not set before the first interpolate_ndvi
            /\ outcome' = Raised("estimate_growth_stages", "", "AttributeError")
            /\ UNCHANGED daily_ndvi
       ELSE LET ss     == <<ndvi_data, harvest_date - sowing_date>>
                result == Stages[ss][daily_ndvi.NDVI_Interpolated]
            IN  IF ~result.found
                THEN \* .loc[nan] on an all-NaN column
                     /\ outcome' = Raised("estimate_growth_stages", "", "KeyError")
                     /\ UNCHANGED daily_ndvi
                ELSE /\ daily_ndvi' =
                           [daily_ndvi EXCEPT !.columns = @ \cup {"Growth_Stage"},
                                              !.Growth_Stage = result.labels]
                     /\ outcome' = Returned("estimate_growth_stages", "", result.dates)
    /\ UNCHANGED <<ndvi_data, sowing_date, harvest_date, fvc_params>>

Next ==
    \/ \E method \in FvcMethodNames : EstimateFvcParameters(method)
    \/ \E method \in InterpolationMethodNames : InterpolateNdvi(method)
    \/ EstimateGrowthStages

Spec == Init /\ [][Next]_vars

----------------------------------------------------------------------------
(* The pipeline of main(): estimate_fvc_parameters, then interpolate_ndvi,   *)
(* then estimate_growth_stages, on every session                             *)

PipelineInit == Loaded(PipelineSessions)

PipelineEstimate(method) ==
    /\ daily_ndvi = NoSeries
    /\ EstimateFvcParameters(method)

PipelineInterpolate(method) ==
    /\ daily_ndvi = NoSeries
    /\ InterpolateNdvi(method)

PipelineStages ==
    /\ daily_ndvi # NoSeries
    /\ EstimateGrowthStages

PipelineNext ==
    \/ \E method \in FvcMethodNames : PipelineEstimate(method)
    \/ \E method \in InterpolationMethodNames : PipelineInterpolate(method)
    \/ PipelineStages

PipelineSpec == PipelineInit /\ [][PipelineNext]_vars

----------------------------------------------------------------------------
(* The normalizer on its own: calculate_fvc and                              *)
(* calculate_ground_cover_percentage on arrays the caller passes             *)

NdviInputs == { <<0>>, <<5000>>, <<9800, 3000>>, <<NaN, 8500>>, <<1000, 4000, 9990>> }

FvcInputs == { <<0, 5000, S>>, <<NaN>> }

\* calculate_fvc(ndvi_values)
CalculateFvc(ndvi_values) ==
    /\ IF params_missing(fvc_params)
       THEN outcome' = Raised("calculate_fvc", ndvi_values, "ValueError")
       ELSE outcome' = Returned("calculate_fvc", ndvi_values,
                                calculate_fvc(ndvi_values, fvc_params))
    /\ UNCHANGED <<ndvi_data, sowing_date, harvest_date, fvc_params, daily_ndvi>>

\* calculate_ground_cover_percentage(fvc_values)
CalculateGroundCoverPercentage(fvc_values) ==
    /\ outcome' = Returned("calculate_ground_cover_percentage", fvc_values,
                           calculate_ground_cover_percentage(fvc_values))
    /\ UNCHANGED <<ndvi_data, sowing_date, harvest_date, fvc_params, daily_ndvi>>

NormalizerNext ==
    \/ \E method \in FvcMethodNames : EstimateFvcParameters(method)
    \/ \E ndvi_values \in NdviInputs : CalculateFvc(ndvi_values)
    \/ \E fvc_values \in FvcInputs : CalculateGroundCoverPercentage(fvc_values)

NormalizerSpec == Init /\ [][NormalizerNext]_vars

----------------------------------------------------------------------------
(* Single steps of the loops inside _balanced_interpolation and              *)
(* _calculate_confidence_intervals, on every session                         *)

ComponentInit == Loaded(PipelineSessions)

\* the iteration of the loop of lines 332-344 for the k-th observation
PullObservation(k) ==
    /\ k \in 1..Len(ndvi_data)
    /\ LET last   == harvest_date - sowing_date
           before == PullObserved(
                         balanced_constrained(x_interp(sowing_date, harvest_date),
                                              ndvi_data, sowing_date, last),
                         SubSeq(ndvi_data, 1, k - 1), sowing_date, 1)
           after  == PullOne(before, ndvi_data[k].phenomenonTime - sowing_date,
                             ndvi_data[k].NDVI)
       IN  outcome' = Returned("_balanced_interpolation", k,
                               [before |-> before, after |-> after])
    /\ UNCHANGED <<ndvi_data, sowing_date, harvest_date, fvc_params, daily_ndvi>>

TrialMethods == {"linear", "cubic", "polynomial", "balanced"}

\* one iteration of the loop of lines 465-496, for the indices it drew
BootstrapTrial(method, drawn) ==
    /\ outcome' = Returned("_calculate_confidence_intervals",
                           [method |-> method, drawn |-> drawn],
                           bootstrap_predictions(method,
                               Nodes(ndvi_data, sowing_date),
                               x_interp(sowing_date, harvest_date), <<drawn>>, 1))
    /\ UNCHANGED <<ndvi_data, sowing_date, harvest_date, fvc_params, daily_ndvi>>

ComponentNext ==
    \/ \E k \in 1..Len(LongPool) : PullObservation(k)
    \/ \E method \in TrialMethods :
          \E drawn \in Resamples(Len(ndvi_data)) : BootstrapTrial(method, drawn)

ComponentSpec == ComponentInit /\ [][ComponentNext]_vars

----------------------------------------------------------------------------
(* Properties *)

\* C1: for the methods linear, cubic, polynomial, sigmoid and balanced, every
\* NDVI_Interpolated value of the returned daily series lies in [0,1], and so
\* does every FVC_Interpolated value when the column is present.
C1_ValuesInUnitInterval ==
    (/\ outcome.op = "interpolate_ndvi"
     /\ outcome.status = "ok"
     /\ outcome.argument \in {"linear", "cubic", "polynomial", "sigmoid", "balanced"})
    => /\ \A i \in DOMAIN daily_ndvi.NDVI_Interpolated :
             daily_ndvi.NDVI_Interpolated[i] \in 0..S
       /\ \A i \in DOMAIN daily_ndvi.FVC_Interpolated :
             daily_ndvi.FVC_Interpolated[i] \in 0..S

\* C2: after a successful estimate_fvc_parameters, whatever the policy, the
\* stored parameters satisfy ndvi_vegetation > ndvi_soil.
C2_VegetationAboveSoil ==
    (outcome.op = "estimate_fvc_parameters" /\ outcome.status = "ok")
    => fvc_params.ndvi_vegetation > fvc_params.ndvi_soil

\* C3: calculate_fvc under parameters with ndvi_vegetation <= ndvi_soil is
\* rejected with an error: it returns no cover value, NaN and infinity included.
C3_DegenerateRejected ==
    (/\ outcome.op = "calculate_fvc"
     /\ ~params_missing(fvc_params)
     /\ fvc_params.ndvi_vegetation <= fvc_params.ndvi_soil)
    => outcome.status # "ok"

\* C4: when no bootstrap trial can succeed (a single observation: every
\* resample has one unique day) and the primary fit did not raise, the call
\* returns, and the bounds are 0.95 and 1.05 times the primary value every day.
C4_FallbackBand ==
    (/\ outcome.op = "interpolate_ndvi"
     /\ Len(ndvi_data) = 1
     /\ outcome.status # "ValueError")
    => /\ outcome.status = "ok"
       /\ \A i \in DOMAIN daily_ndvi.NDVI_Interpolated :
             /\ daily_ndvi.NDVI_Lower_CI[i]
                  = Clip((95 * daily_ndvi.NDVI_Interpolated[i]) \div 100)
             /\ daily_ndvi.NDVI_Upper_CI[i]
                  = Clip((105 * daily_ndvi.NDVI_Interpolated[i]) \div 100)

\* C5: with 0 or 1 observation, interpolate_ndvi('balanced') and
\* interpolate_ndvi('sigmoid') return a complete daily series, not an error.
C5_GuidedDegrades ==
    (/\ outcome.op = "interpolate_ndvi"
     /\ outcome.argument \in {"balanced", "sigmoid"}
     /\ Len(ndvi_data) <= 1)
    => /\ outcome.status = "ok"
       /\ DOMAIN daily_ndvi.NDVI_Interpolated = 0..(harvest_date - sowing_date)

\* C6: a numeric fit with too few observations (linear: fewer than 2, cubic:
\* fewer than 4, polynomial: 0 or 1) fails with the fit's insufficient-data
\* error and the call produces no daily series.
C6_NumericFitRejectsSparse ==
    [][(/\ outcome'.op = "interpolate_ndvi"
        /\ \/ outcome'.argument = "linear" /\ Len(ndvi_data) < 2
           \/ outcome'.argument = "cubic" /\ Len(ndvi_data) < 4
           \/ outcome'.argument = "polynomial" /\ Len(ndvi_data) < 2)
       => (outcome'.status = "ValueError" /\ daily_ndvi' = daily_ndvi)]_vars

\* C7: interpolate_ndvi with a name that is none of the recognized ones fails
\* with an error, returns no series and leaves the current series in place.
C7_UnknownAlgorithmRejected ==
    [][(/\ outcome'.op = "interpolate_ndvi"
        /\ outcome'.argument \notin InterpolationMethods)
       => (outcome'.status # "ok" /\ daily_ndvi' = daily_ndvi)]_vars

\* C8: estimate_fvc_parameters with a name other than the three policies
\* fails with an error and leaves the parameters as they were before the call.
C8_UnknownPolicyRejected ==
    [][(/\ outcome'.op = "estimate_fvc_parameters"
        /\ outcome'.argument \notin FvcMethods)
       => (outcome'.status = "ValueError" /\ fvc_params' = fvc_params)]_vars

\* an unknown policy was rejected in a session that had parameters stored
C8_Witness ==
    /\ outcome.op = "estimate_fvc_parameters"
    /\ outcome.argument \notin FvcMethods
    /\ outcome.status = "ValueError"
    /\ fvc_params # NoParams

\* C9: the daily series has one row per calendar day from sowing to harvest
\* inclusive: season_length + 1 rows in every column, Days_After_Sowing equal
\* to 0, 1, ..., season_length and Dates one day apart.
C9_OnePointPerDay ==
    daily_ndvi.columns # {}
    => LET last == harvest_date - sowing_date
       IN  /\ \A c \in daily_ndvi.columns : DOMAIN daily_ndvi[c] = 0..last
           /\ \A i \in 0..last : daily_ndvi.Days_After_Sowing[i] = i
           /\ daily_ndvi.Date[0] = sowing_date
           /\ daily_ndvi.Date[last] = harvest_date
           /\ \A i \in 1..last : daily_ndvi.Date[i] = daily_ndvi.Date[i - 1] + 1

\* a cubic fit returned the series of the 301-day season
C9_Witness ==
    /\ outcome.op = "interpolate_ndvi"
    /\ outcome.status = "ok"
    /\ outcome.argument = "cubic"
    /\ harvest_date - sowing_date = FullSeason
    /\ "FVC_Interpolated" \in daily_ndvi.columns

\* C10: after estimate_growth_stages every day but the harvest date carries
\* the label of a stage other than Harvest whose anchor is the latest anchor
\* not after that day, and the harvest date carries Harvest.
C10_LatestAnchorLabels ==
    (outcome.op = "estimate_growth_stages" /\ outcome.status = "ok")
    => LET anchors == outcome.returned
           stages  == DOMAIN anchors \ {"Harvest"}
       IN  \A i \in DOMAIN daily_ndvi.Date :
               LET date  == daily_ndvi.Date[i]
                   label == daily_ndvi.Growth_Stage[i]
               IN  IF date = harvest_date THEN label = "Harvest"
                   ELSE /\ label \in stages
                        /\ anchors[label] <= date
                        /\ \A s \in stages :
                              anchors[s] <= date => anchors[s] <= anchors[label]

\* the peak came before stem elongation in a 301-day season: anchors out of
\* the nominal order, two of them before sowing
C10_Witness ==
    /\ outcome.op = "estimate_growth_stages"
    /\ outcome.status = "ok"
    /\ harvest_date - sowing_date = FullSeason
    /\ outcome.returned["Flowering"] < outcome.returned["Stem Elongation"]
    /\ outcome.returned["Booting"] < sowing_date


\* C17: in the balanced reconstruction, the pull of an observation that lies
\* on a reconstructed day leaves that day at 0.9 x observed + 0.1 x the value
\* the day had just before this observation's pull, and nothing more.
C17_PullAtObservedDay ==
    outcome.op = "_balanced_interpolation"
    => LET k      == outcome.argument
           day    == ndvi_data[k].phenomenonTime - sowing_date
           before == outcome.returned.before
           after  == outcome.returned.after
       IN  day \in DOMAIN before
           => IF IsNaN(before[day]) THEN IsNaN(after[day])
              ELSE Abs(10 * after[day] - (9 * ndvi_data[k].NDVI + before[day])) <= 20

\* the second observation was pulled on a day whose value was far from it
C17_Witness ==
    /\ outcome.op = "_balanced_interpolation"
    /\ outcome.argument = 2
    /\ LET day == ndvi_data[2].phenomenonTime - sowing_date
       IN  /\ day \in DOMAIN outcome.returned.before
           /\ ~IsNaN(outcome.returned.before[day])
           /\ Abs(ndvi_data[2].NDVI - outcome.returned.before[day]) > 1000

\* C18: a bootstrap trial contributes nothing when its resample has fewer
\* than 2 unique days or when the requested kind is infeasible for it (cubic
\* with fewer than 4 unique points); otherwise it contributes one refit.
C18_InfeasibleTrialSkipped ==
    outcome.op = "_calculate_confidence_intervals"
    => LET unique == Cardinality(outcome.argument.drawn)
       IN  IF unique < 2 \/ (outcome.argument.method = "cubic" /\ unique < 4)
           THEN outcome.returned = <<>>
           ELSE Len(outcome.returned) = 1

\* C18 as amended: a trial contributes nothing when its resample has fewer
\* than 2 unique days; otherwise it contributes one curve over every day of
\* the season, which is the linear fit through the resampled points unless
\* the method is cubic with at least 4 unique points or polynomial with at
\* least 3, and which passes through the resampled points whenever the fit
\* has as many coefficients as points.
C18_TrialContribution ==
    outcome.op = "_calculate_confidence_intervals"
    => LET method == outcome.argument.method
           unique == boot_unique(Nodes(ndvi_data, sowing_date), outcome.argument.drawn)
           m      == Len(unique)
           last   == harvest_date - sowing_date
       IN  IF m < 2 THEN outcome.returned = <<>>
           ELSE /\ Len(outcome.returned) = 1
                /\ DOMAIN outcome.returned[1] = 0..last
                /\ (~(method = "cubic" /\ m >= 4) /\ ~(method = "polynomial" /\ m >= 3))
                   => \A d \in 0..last :
                         outcome.returned[1][d] = linear_interp(unique, d)
                /\ ~(method = "polynomial" /\ m >= 4)
                   => \A i \in 1..m :
                         unique[i].x \in 0..last
                         => Abs(outcome.returned[1][unique[i].x] - unique[i].y) <= 20

\* a cubic band was requested and a resample with 3 unique days contributed
C18_Witness ==
    /\ outcome.op = "_calculate_confidence_intervals"
    /\ outcome.argument.method = "cubic"
    /\ Cardinality(outcome.argument.drawn) = 3
    /\ Len(outcome.returned) = 1
    /\ harvest_date - sowing_date = FullSeason


\* C13: the parameters a successful estimate_fvc_parameters stores do not
\* depend on the parameters held before: they are the ones a fresh session
\* gets from the same policy and observations, the call returns them, and a
\* second call with the same policy changes nothing.
C13_EstimateOverwrites ==
    [][(outcome'.op = "estimate_fvc_parameters" /\ outcome'.status = "ok")
       => /\ fvc_params' = estimated_params(outcome'.argument, ndvi_data, sowing_date)
          /\ outcome'.returned = fvc_params'
          /\ (/\ outcome.op = "estimate_fvc_parameters"
              /\ outcome.status = "ok"
              /\ outcome.argument = outcome'.argument)
             => fvc_params' = fvc_params]_vars

\* a policy other than the literature one was applied and stored parameters
\* that differ from the literature ones in both entries
C13_Witness ==
    /\ outcome.op = "estimate_fvc_parameters"
    /\ outcome.status = "ok"
    /\ outcome.argument = "seasonal"
    /\ fvc_params.ndvi_soil # LiteratureSoil
    /\ fvc_params.ndvi_vegetation # LiteratureVegetation

\* C14: under parameters with vegetation > soil, calculate_fvc(v) is
\* (v - soil) / (vegetation - soil) clipped to [0,1]; with soil 0.15 and
\* vegetation 0.85 the value 0.85 gives 1.0; and
\* calculate_ground_cover_percentage returns 100 times its argument.
C14_CoverFormula ==
    /\ (/\ outcome.op = "calculate_fvc"
        /\ ~params_missing(fvc_params)
        /\ fvc_params.ndvi_vegetation > fvc_params.ndvi_soil)
       => /\ outcome.status = "ok"
          /\ DOMAIN outcome.returned = DOMAIN outcome.argument
          /\ \A i \in DOMAIN outcome.argument :
                LET v   == outcome.argument[i]
                    r   == outcome.returned[i]
                    num == v - fvc_params.ndvi_soil
                    den == fvc_params.ndvi_vegetation - fvc_params.ndvi_soil
                IN  ~IsNaN(v)
                    => /\ v <= fvc_params.ndvi_soil => r = 0
                       /\ v >= fvc_params.ndvi_vegetation => r = S
                       /\ (v > fvc_params.ndvi_soil /\ v < fvc_params.ndvi_vegetation)
                          => (r * den <= num * S /\ num * S < (r + 1) * den)
                       /\ (fvc_params = literature_params /\ v = 8500) => r = S
    /\ outcome.op = "calculate_ground_cover_percentage"
       => /\ DOMAIN outcome.returned = DOMAIN outcome.argument
          /\ \A i \in DOMAIN outcome.argument :
                ~IsNaN(outcome.argument[i])
                => outcome.returned[i] = 100 * outcome.argument[i]

\* calculate_fvc under the literature parameters met the value 0.85
C14_Witness ==
    /\ outcome.op = "calculate_fvc"
    /\ outcome.status = "ok"
    /\ fvc_params = literature_params
    /\ \E i \in DOMAIN outcome.argument :
          outcome.argument[i] = 8500 /\ outcome.returned[i] = S

\* C15: on a non-empty observation set the data_driven policy returns
\* soil = max(0.05, min - 0.02) and vegetation = min(0.95, max + 0.02)
\* (0.08 and 0.92 for the extremes 0.10 and 0.90), and the literature policy
\* returns soil 0.15 and vegetation 0.85 on every observation set.
C15_PolicyValues ==
    (outcome.op = "estimate_fvc_parameters" /\ outcome.status = "ok")
    => /\ (outcome.argument = "data_driven" /\ Len(ndvi_data) > 0)
          => LET observed == {ndvi_data[i].NDVI : i \in DOMAIN ndvi_data}
                 lowest   == CHOOSE v \in observed : \A w \in observed : v <= w
                 highest  == CHOOSE v \in observed : \A w \in observed : v >= w
             IN  /\ outcome.returned.ndvi_soil
                      = (IF lowest - 200 > 500 THEN lowest - 200 ELSE 500)
                 /\ outcome.returned.ndvi_vegetation
                      = (IF highest + 200 < 9500 THEN highest + 200 ELSE 9500)
                 /\ (lowest = 1000 /\ highest = 9000)
                    => outcome.returned = [ndvi_soil |-> 800, ndvi_vegetation |-> 9200]
       /\ outcome.argument = "literature"
          => outcome.returned = [ndvi_soil |-> 1500, ndvi_vegetation |-> 8500]

\* the data_driven policy met the extremes 0.10 and 0.90
C15_Witness ==
    /\ outcome.op = "estimate_fvc_parameters"
    /\ outcome.argument = "data_driven"
    /\ {ndvi_data[i].NDVI : i \in DOMAIN ndvi_data} = {1000, 9000}
    /\ fvc_params = [ndvi_soil |-> 800, ndvi_vegetation |-> 9200]

\* C16: under parameters with vegetation > soil, calculate_fvc is monotone:
\* v1 <= v2 implies calculate_fvc(v1) <= calculate_fvc(v2).
C16_CoverMonotone ==
    (/\ outcome.op = "calculate_fvc"
     /\ outcome.status = "ok"
     /\ fvc_params.ndvi_vegetation > fvc_params.ndvi_soil)
    => \A i, j \in DOMAIN outcome.argument :
          (/\ ~IsNaN(outcome.argument[i])
           /\ ~IsNaN(outcome.argument[j])
           /\ outcome.argument[i] <= outcome.argument[j])
          => outcome.returned[i] <= outcome.returned[j]

\* two values on either side of the soil value, the lower one clipped to 0
C16_Witness ==
    /\ outcome.op = "calculate_fvc"
    /\ outcome.status = "ok"
    /\ fvc_params.ndvi_vegetation > fvc_params.ndvi_soil
    /\ \E i, j \in DOMAIN outcome.argument :
          /\ outcome.argument[i] < fvc_params.ndvi_soil
          /\ outcome.argument[j] > fvc_params.ndvi_soil
          /\ outcome.returned[i] = 0
          /\ outcome.returned[j] > 0


\* C11: estimate_growth_stages on the current daily series returns a schedule
\* of exactly the 10 stage names with Sowing = start, Emergence = start + 10,
\* Tillering = start + 45, Stem Elongation = start + 120, Booting = peak - 20,
\* Heading = peak - 10, Flowering = peak, Grain Filling = peak + 15,
\* Maturity = end - 25 and Harvest = end, the peak being a date on which the
\* series has its largest value.  (Without a daily series the call raises
\* AttributeError: there is no current series to take the peak from.)
C11_StageSchedule ==
    (outcome.op = "estimate_growth_stages" /\ daily_ndvi # NoSeries)
    => /\ outcome.status = "ok"
       /\ DOMAIN outcome.returned =
             {"Sowing", "Emergence", "Tillering", "Stem Elongation", "Booting",
              "Heading", "Flowering", "Grain Filling", "Maturity", "Harvest"}
       /\ LET anchors == outcome.returned
              peak    == anchors["Flowering"]
              ndvi    == daily_ndvi.NDVI_Interpolated
          IN  /\ anchors["Sowing"] = sowing_date
              /\ anchors["Emergence"] = sowing_date + 10
              /\ anchors["Tillering"] = sowing_date + 45
              /\ anchors["Stem Elongation"] = sowing_date + 120
              /\ anchors["Booting"] = peak - 20
              /\ anchors["Heading"] = peak - 10
              /\ anchors["Grain Filling"] = peak + 15
              /\ anchors["Maturity"] = harvest_date - 25
              /\ anchors["Harvest"] = harvest_date
              /\ \E i \in DOMAIN ndvi :
                    /\ daily_ndvi.Date[i] = peak
                    /\ ~IsNaN(ndvi[i])
                    /\ \A j \in DOMAIN ndvi : ~IsNaN(ndvi[j]) => ndvi[j] <= ndvi[i]

\* the schedule of a 301-day season whose peak lies strictly inside it
C11_Witness ==
    /\ outcome.op = "estimate_growth_stages"
    /\ outcome.status = "ok"
    /\ harvest_date - sowing_date = FullSeason
    /\ outcome.returned["Flowering"] > sowing_date + 200
    /\ outcome.returned["Flowering"] < harvest_date

\* C19: after estimate_growth_stages no day keeps the label 'Unknown': every
\* day carries one of the 10 stage names, and the harvest date carries
\* Harvest also when another anchor falls on it.
C19_EveryDayLabelled ==
    "Growth_Stage" \in daily_ndvi.columns
    => \A i \in DOMAIN daily_ndvi.Date :
          /\ i \in DOMAIN daily_ndvi.Growth_Stage
          /\ \E k \in 1..Len(StageNames) : daily_ndvi.Growth_Stage[i] = StageNames[k]
          /\ daily_ndvi.Date[i] = harvest_date => daily_ndvi.Growth_Stage[i] = "Harvest"

\* the peak of a season of more than 0 days falls on the harvest date
C19_Witness ==
    /\ outcome.op = "estimate_growth_stages"
    /\ outcome.status = "ok"
    /\ harvest_date > sowing_date
    /\ outcome.returned["Flowering"] = harvest_date
    /\ "Growth_Stage" \in daily_ndvi.columns


\* C20: a successful interpolate_ndvi gives the daily series its cover columns
\* exactly when the session holds parameters, which only a successful
\* estimate_fvc_parameters stores, and computes them from the parameters held
\* at that call; estimate_fvc_parameters leaves an existing daily series as it
\* is, so the cover values keep the parameters of the interpolate call.
C20_CoverFollowsInterpolate ==
    /\ [][ /\ (fvc_params' # fvc_params)
                 => (outcome'.op = "estimate_fvc_parameters" /\ outcome'.status = "ok")
           /\ (outcome'.op = "estimate_fvc_parameters") => (daily_ndvi' = daily_ndvi)
           /\ (outcome'.op = "interpolate_ndvi") => (fvc_params' = fvc_params)
         ]_vars
    /\ []((outcome.op = "interpolate_ndvi" /\ outcome.status = "ok")
            => IF fvc_params = NoParams
               THEN daily_ndvi.columns \cap CoverColumns = {}
               ELSE /\ CoverColumns \subseteq daily_ndvi.columns
                    /\ \A i \in DOMAIN daily_ndvi.NDVI_Interpolated :
                          /\ daily_ndvi.FVC_Interpolated[i] =
                                fvc_value(daily_ndvi.NDVI_Interpolated[i], fvc_params)
                          /\ daily_ndvi.FVC_Lower_CI[i] =
                                fvc_value(daily_ndvi.NDVI_Lower_CI[i], fvc_params)
                          /\ daily_ndvi.FVC_Upper_CI[i] =
                                fvc_value(daily_ndvi.NDVI_Upper_CI[i], fvc_params)
                          /\ daily_ndvi.Ground_Cover_Percentage[i] =
                                (IF IsNaN(daily_ndvi.FVC_Interpolated[i]) THEN NaN
                                 ELSE 100 * daily_ndvi.FVC_Interpolated[i]))

\* estimate -> interpolate -> estimate(other policy): the series holds cover
\* values that the parameters now in the session would not give
C20_Witness ==
    /\ outcome.op = "estimate_fvc_parameters"
    /\ outcome.status = "ok"
    /\ CoverColumns \subseteq daily_ndvi.columns
    /\ \E i \in DOMAIN daily_ndvi.NDVI_Interpolated :
          /\ ~IsNaN(daily_ndvi.FVC_Interpolated[i])
          /\ daily_ndvi.FVC_Interpolated[i] #
                fvc_value(daily_ndvi.NDVI_Interpolated[i], fvc_params)


\* C12 (as stated): every interpolate_ndvi replaces the daily series by one
\* that the observations, the season bounds, the algorithm and the parameters
\* determine: a call repeated on the same session with the same algorithm and
\* parameters gives the same series again.
C12_DeterminedByInputs ==
    [][ (/\ outcome.op = "interpolate_ndvi"
         /\ outcome.status = "ok"
         /\ outcome'.op = "interpolate_ndvi"
         /\ outcome'.argument = outcome.argument)
        => (outcome'.status = "ok" /\ daily_ndvi' = daily_ndvi)
      ]_vars

\* C12: every interpolate_ndvi that returns replaces the daily series
\* wholesale: the new series has one row per day of the current season, the
\* columns that the parameters held at the call call for, and no stage labels
\* or other column of the previous series; its curve is the same on a repeated
\* call for every algorithm but the jittered physiological one, the bands
\* depending on the resampling draws.  An interpolate_ndvi that raises leaves
\* the previous series in place.  A later estimate_growth_stages takes the
\* peak from the series it finds and changes nothing but the label column.
C12_SeriesReplaced ==
    [][ /\ (outcome'.op = "interpolate_ndvi" /\ outcome'.status = "ok")
            => /\ daily_ndvi'.columns =
                     BaseColumns \cup (IF fvc_params = NoParams THEN {} ELSE CoverColumns)
               /\ daily_ndvi'.Growth_Stage = <<>>
               /\ DOMAIN daily_ndvi'.NDVI_Interpolated = 0..(harvest_date - sowing_date)
               /\ \A i \in DOMAIN daily_ndvi'.Date : daily_ndvi'.Date[i] = sowing_date + i
               /\ (/\ outcome.op = "interpolate_ndvi"
                   /\ outcome.status = "ok"
                   /\ outcome.argument = outcome'.argument
                   /\ outcome.argument # "physiological")
                  => daily_ndvi'.NDVI_Interpolated = daily_ndvi.NDVI_Interpolated
        /\ (outcome'.op = "interpolate_ndvi" /\ outcome'.status # "ok")
            => daily_ndvi' = daily_ndvi
        /\ (outcome'.op = "estimate_growth_stages" /\ outcome'.status = "ok")
            => /\ daily_ndvi' = [daily_ndvi EXCEPT
                                   !.columns = @ \cup {"Growth_Stage"},
                                   !.Growth_Stage = daily_ndvi'.Growth_Stage]
               /\ \E i \in DOMAIN daily_ndvi.NDVI_Interpolated :
                     /\ daily_ndvi.Date[i] = outcome'.returned["Flowering"]
                     /\ \A j \in DOMAIN daily_ndvi.NDVI_Interpolated :
                           IsNaN(daily_ndvi.NDVI_Interpolated[j])
                           \/ daily_ndvi.NDVI_Interpolated[j] <= daily_ndvi.NDVI_Interpolated[i]
      ]_vars

\* a series with cover columns and no labels, from a call that returned
C12_Witness ==
    /\ outcome.op = "interpolate_ndvi"
    /\ outcome.status = "ok"
    /\ harvest_date - sowing_date = FullSeason
    /\ daily_ndvi.columns = BaseColumns \cup CoverColumns
    /\ daily_ndvi.Growth_Stage = <<>>


\* C21: in every daily series interpolate_ndvi returns, on every day
\* NDVI_Lower_CI <= NDVI_Upper_CI with both in [0, 1], and when the cover
\* columns are present FVC_Lower_CI <= FVC_Upper_CI (a comparison with NaN
\* is false).
C21_BoundsOrdered ==
    (outcome.op = "interpolate_ndvi" /\ outcome.status = "ok")
    => /\ \A i \in DOMAIN daily_ndvi.NDVI_Lower_CI :
             /\ ~IsNaN(daily_ndvi.NDVI_Lower_CI[i])
             /\ ~IsNaN(daily_ndvi.NDVI_Upper_CI[i])
             /\ 0 <= daily_ndvi.NDVI_Lower_CI[i]
             /\ daily_ndvi.NDVI_Lower_CI[i] <= daily_ndvi.NDVI_Upper_CI[i]
             /\ daily_ndvi.NDVI_Upper_CI[i] <= S
       /\ CoverColumns \subseteq daily_ndvi.columns
          => \A i \in DOMAIN daily_ndvi.FVC_Lower_CI :
                /\ ~IsNaN(daily_ndvi.FVC_Lower_CI[i])
                /\ ~IsNaN(daily_ndvi.FVC_Upper_CI[i])
                /\ daily_ndvi.FVC_Lower_CI[i] <= daily_ndvi.FVC_Upper_CI[i]

====
